---- MODULE Spec2Model ----
(***************************************************************************)
(* niri-workspace-applet: the event-stream session (src/niri.rs, worker),  *)
(* the delivery channel it writes to, and the applet's state               *)
(* (src/app.rs, NiriWorkspaceApplet) that the delivered updates change.    *)
(*                                                                         *)
(* A workspace is the record [id, idx, is_focused]; the other fields of    *)
(* niri_ipc::Workspace (name, output, is_active, ...) are never read or    *)
(* written by update and are left out.                                     *)
(***************************************************************************)
EXTENDS Naturals, Sequences, FiniteSets

VARIABLES
    workspaces,      \* NiriWorkspaceApplet.workspaces
    focused,         \* NiriWorkspaceApplet.focused
    lastMsg,         \* history: the update most recently handled by update
    pc,              \* where the worker future stands
    channel,         \* updates queued in the mpsc channel, oldest first
    parked,          \* the channel's sender is parked (its send cannot finish)
    eventsRead,      \* history: events decoded by read_event, in arrival order
    delivered,       \* history: updates handed to the applet, in order
    subscribeWrites, \* history: EventStream requests written
    replyReads,      \* history: reply lines read by event_stream
    reply,           \* outcome of event_stream
    connectFailed,   \* history: NiriClient::connect returned Err
    serverClosed,    \* the server has closed the event-stream connection
    endCause,        \* history: why read_event returned Err
    streamEnded,     \* the subscription's stream has yielded its end
    appPc,           \* the applet: "Starting", "Running" or "Panicked"
    cmdConnections,  \* history: connections opened by Socket::connect
    socketRequests,  \* history: requests sent on self.socket
    cmdOutcome,      \* history: how the last Socket::send came back
    cmdErrorLogs     \* history: error! entries written by the last command

vars == <<workspaces, focused, lastMsg, pc, channel, parked, eventsRead,
          delivered, subscribeWrites, replyReads, reply, connectFailed,
          serverClosed, endCause, streamEnded, appPc, cmdConnections,
          socketRequests, cmdOutcome, cmdErrorLogs>>

appVars == <<workspaces, focused, lastMsg>>
sessionVars == <<pc, channel, parked, eventsRead, subscribeWrites, replyReads,
                 reply, connectFailed, serverClosed, endCause, streamEnded>>
cmdVars == <<appPc, cmdConnections, socketRequests, cmdOutcome, cmdErrorLogs>>
endVars == <<serverClosed, endCause, streamEnded>>

-----------------------------------------------------------------------------
(* Bounds *)

MaxId == 2       \* workspace ids in the server's lists are 1..MaxId
MaxIdx == 2      \* workspace indices are 1..MaxIdx (they may tie: one per output)
MaxLen == 2      \* longest workspace list the server sends
MaxEvents == 6   \* lines the session reads while streaming
MaxRequests == 3 \* requests sent on the applet's socket

(* Program constant: stream::channel(4, ...) *)
ChannelSize == 4

-----------------------------------------------------------------------------
(* Data *)

Ids == 1..MaxId
\* ids an activation can name: those of the lists and one no list holds
FocusIds == 1..(MaxId + 1)
Idxs == 1..MaxIdx

Ws(id, idx, f) == [id |-> id, idx |-> idx, is_focused |-> f]

WorkspaceSet == [id : Ids, idx : Idxs, is_focused : BOOLEAN]

NumFocused(s) == Cardinality({i \in 1..Len(s) : s[i].is_focused})

HasId(s, id) == \E i \in 1..Len(s) : s[i].id = id

\* The lists niri sends: ids are unique and is_focused is global ("there is only
\* one focused workspace across all outputs"); the order is the server's own.
ServerLists ==
    {s \in UNION {[1..n -> WorkspaceSet] : n \in 0..MaxLen} :
        /\ \A i, j \in 1..Len(s) : i # j => s[i].id # s[j].id
        /\ NumFocused(s) <= 1}

\* enum WorkspaceUpdate
WorkspaceChanged(list) == [type |-> "WorkspaceChanged", workspaces |-> list, id |-> 0]
FocusChanged(id) == [type |-> "FocusChanged", workspaces |-> <<>>, id |-> id]
NoMsg == [type |-> "None", workspaces |-> <<>>, id |-> 0]

AllUpdates ==
    {WorkspaceChanged(l) : l \in ServerLists} \cup {FocusChanged(id) : id \in FocusIds}

-----------------------------------------------------------------------------
(* The applet: src/app.rs *)

IsSortedByIdx(s) == \A i, j \in 1..Len(s) : i < j => s[i].idx <= s[j].idx

\* w goes behind every element that does not compare greater: the sort is stable
InsertByIdx(w, s) ==
    LET k == Cardinality({i \in 1..Len(s) : s[i].idx <= w.idx})
    IN  SubSeq(s, 1, k) \o <<w>> \o SubSeq(s, k + 1, Len(s))

InsertByIdxDesc(w, s) ==
    LET k == Cardinality({i \in 1..Len(s) : s[i].idx >= w.idx})
    IN  SubSeq(s, 1, k) \o <<w>> \o SubSeq(s, k + 1, Len(s))

RECURSIVE SortByIdxDesc(_)
SortByIdxDesc(s) ==
    IF s = <<>> THEN <<>>
    ELSE InsertByIdxDesc(s[Len(s)], SortByIdxDesc(SubSeq(s, 1, Len(s) - 1)))

\* sort_by(|w1, w2| w1.idx.cmp(&w2.idx)): a stable sort, ascending by idx
RECURSIVE SortByIdx(_)
SortByIdx(s) ==
    IF s = <<>> THEN <<>>
    ELSE InsertByIdx(s[Len(s)], SortByIdx(SubSeq(s, 1, Len(s) - 1)))

SetFocusNoClear(ws, id) ==
    [i \in 1..Len(ws) |->
        [ws[i] EXCEPT !.is_focused = ws[i].is_focused \/ (ws[i].id = id)]]

SetFocusByIdx(ws, id) ==
    [i \in 1..Len(ws) |-> [ws[i] EXCEPT !.is_focused = (ws[i].idx = id)]]

SetFocusIfPresent(ws, id) ==
    IF HasId(ws, id)
    THEN [i \in 1..Len(ws) |-> [ws[i] EXCEPT !.is_focused = (ws[i].id = id)]]
    ELSE ws

\* for w in &mut self.workspaces { w.is_focused = w.id == id; }
SetFocus(ws, id) ==
    [i \in 1..Len(ws) |-> [ws[i] EXCEPT !.is_focused = (ws[i].id = id)]]

UpdateWorkspacesNoSort(ws, m) ==
    IF m.type = "WorkspaceChanged" THEN m.workspaces
    ELSE SetFocus(ws, m.id)

\* update, the arm Message::WorkspaceUpdated: the new value of self.workspaces
UpdateWorkspaces(ws, m) ==
    IF m.type = "WorkspaceChanged" THEN SortByIdx(m.workspaces)
    ELSE SetFocus(ws, m.id)

\* update, the arm Message::WorkspaceUpdated: the new value of self.focused
UpdateFocused(f, m) ==
    IF m.type = "FocusChanged" THEN m.id ELSE f

update(m) ==
    /\ workspaces' = UpdateWorkspaces(workspaces, m)
    /\ focused' = UpdateFocused(focused, m)
    /\ lastMsg' = m

\* init has run: one connection was opened and get_workspace sent one request
\* on it, giving the server's list, or vec![] on a failure; the list is sorted
\* and focused is set to 0. The session has not started.
InitWith(lists) ==
    /\ \E l \in lists : workspaces = SortByIdx(l)
    /\ focused = 0
    /\ lastMsg = NoMsg
    /\ pc = "Disconnected"
    /\ channel = <<>>
    /\ parked = FALSE
    /\ eventsRead = <<>>
    /\ delivered = <<>>
    /\ subscribeWrites = 0
    /\ replyReads = 0
    /\ reply = "None"
    /\ connectFailed = FALSE
    /\ serverClosed = FALSE
    /\ endCause = "None"
    /\ streamEnded = FALSE
    /\ appPc = "Running"
    /\ cmdConnections = 1
    /\ socketRequests = 1
    /\ cmdOutcome = "None"
    /\ cmdErrorLogs = 0

-----------------------------------------------------------------------------
(* The event-stream session: src/niri.rs, worker and NiriClient *)

\* niri_ipc::Event, as far as worker tells its variants apart
WorkspacesChanged(list) ==
    [type |-> "WorkspacesChanged", workspaces |-> list, id |-> 0, focused |-> FALSE]
WorkspaceActivated(id, f) ==
    [type |-> "WorkspaceActivated", workspaces |-> <<>>, id |-> id, focused |-> f]
OtherEvent ==
    [type |-> "Other", workspaces |-> <<>>, id |-> 0, focused |-> FALSE]

\* The lists and events of the server in the session specification
ListA == <<Ws(1, 1, TRUE), Ws(2, 2, FALSE)>>
ListB == <<Ws(2, 2, TRUE), Ws(1, 1, FALSE)>>
StreamLists == {ListA, ListB}
StreamEvents ==
    {WorkspacesChanged(l) : l \in StreamLists}
        \cup {WorkspaceActivated(2, TRUE), WorkspaceActivated(1, FALSE), OtherEvent}

\* What event_stream can come back with: a decoded Reply (Ok(Handled), Ok of
\* another response, Err(message)), or an io::Error from the read or the decode
ReplyOutcomes == {"Handled", "OkOther", "Err", "ReadError", "DecodeError"}

AcceptedAnyOk(r) == r \in {"Handled", "OkOther"}

\* matches!(reply, Ok(niri_ipc::Response::Handled))
Accepted(r) == r = "Handled"

OutwardAlways(e) ==
    IF e.type = "WorkspacesChanged" THEN <<WorkspaceChanged(e.workspaces)>>
    ELSE IF e.type = "WorkspaceActivated" THEN <<FocusChanged(e.id)>>
    ELSE <<>>

\* the match in worker: the update sent for an event, if any
Outward(e) ==
    IF e.type = "WorkspacesChanged" THEN <<WorkspaceChanged(e.workspaces)>>
    ELSE IF e.type = "WorkspaceActivated" /\ e.focused THEN <<FocusChanged(e.id)>>
    ELSE <<>>

EnqueueFront(q, out) == out \o q

\* output.send(..): the update goes to the back of the channel's queue
Enqueue(q, out) == q \o out

ParkNever(n) == FALSE

\* futures mpsc, as created by stream::channel(4, ..): a send is accepted while
\* the sender is not parked, and parks the sender when the queue then holds
\* more than the buffer (the sender's own guaranteed slot); send().await
\* finishes only once the receiver has taken an update and unparked it.
ParkSelf(n) == n > ChannelSize

\* the worker future is first polled: NiriClient::connect() is called
SessionStart ==
    /\ pc = "Disconnected"
    /\ pc' = "Connecting"
    /\ UNCHANGED <<appVars, channel, parked, eventsRead, delivered,
                   subscribeWrites, replyReads, reply, connectFailed>>
    /\ UNCHANGED <<endVars, cmdVars>>

\* NiriClient::connect().await.expect(..)
Connect ==
    /\ pc = "Connecting"
    /\ \E ok \in BOOLEAN :
         /\ connectFailed' = ~ok
         /\ pc' = IF ok THEN "Subscribing" ELSE "Panicked"
    /\ UNCHANGED <<appVars, channel, parked, eventsRead, delivered,
                   subscribeWrites, replyReads, reply>>
    /\ UNCHANGED <<endVars, cmdVars>>

\* event_stream: the request is written and flushed; an Err ends in expect("")
WriteSubscribe ==
    /\ pc = "Subscribing"
    /\ \E ok \in BOOLEAN :
         /\ subscribeWrites' = IF ok THEN subscribeWrites + 1 ELSE subscribeWrites
         /\ pc' = IF ok THEN "AwaitingSubscribeAck" ELSE "Panicked"
    /\ UNCHANGED <<appVars, channel, parked, eventsRead, delivered,
                   replyReads, reply, connectFailed>>
    /\ UNCHANGED <<endVars, cmdVars>>

\* event_stream: one line is read and decoded; worker then unwraps the result
\* with expect("") and tests the reply with matches!
ReadReply ==
    /\ pc = "AwaitingSubscribeAck"
    /\ \E r \in ReplyOutcomes :
         /\ reply' = r
         /\ pc' = IF r \in {"ReadError", "DecodeError"} THEN "Panicked"
                  ELSE IF Accepted(r) THEN "Streaming"
                  ELSE "Terminated"
    /\ replyReads' = replyReads + 1
    /\ UNCHANGED <<appVars, channel, parked, eventsRead, delivered,
                   subscribeWrites, connectFailed>>
    /\ UNCHANGED <<endVars, cmdVars>>

\* while let Ok(event) = read_event().await { match event { .. send .. } }
ReadEventFrom(events) ==
    /\ pc = "Streaming"
    /\ ~serverClosed
    /\ Len(eventsRead) < MaxEvents
    /\ \E e \in events :
         /\ eventsRead' = Append(eventsRead, e)
         /\ channel' = Enqueue(channel, Outward(e))
         /\ parked' = (Outward(e) # <<>> /\ ParkSelf(Len(channel')))
         /\ pc' = IF parked' THEN "Sending" ELSE "Streaming"
    /\ UNCHANGED <<appVars, delivered, subscribeWrites, replyReads, reply,
                   connectFailed>>
    /\ UNCHANGED <<endVars, cmdVars>>

ReadEvent == ReadEventFrom(StreamEvents)

\* Why read_event returns Err. "ReadFailed": read_line fails or finds the end of
\* the stream (the peer has closed, now or while the session was not reading),
\* or the line is not JSON of the Event shape. "UnknownVariant": the line names
\* a variant niri_ipc::Event does not have; the enum has no catch-all variant,
\* so serde_json::from_str fails on it like on any other undecodable line.
ReadFailures ==
    IF serverClosed THEN {"ReadFailed"} ELSE {"ReadFailed", "UnknownVariant"}

PcAfterReadErrContinue(c) == "Streaming"

\* while let Ok(event) = ..: any Err ends the loop, whatever its cause
PcAfterReadErr(c) == "Terminated"

\* read_event returns Err: the while let loop and the future end, which drops
\* the channel's sender
ReadEventErr ==
    /\ pc = "Streaming"
    /\ \E c \in ReadFailures : endCause' = c /\ pc' = PcAfterReadErr(c)
    /\ UNCHANGED <<appVars, channel, parked, eventsRead, delivered,
                   subscribeWrites, replyReads, reply, connectFailed,
                   serverClosed, streamEnded, cmdVars>>

\* the server closes the connection while the session is blocked in send and
\* so is not reading (a close during a read is that read's outcome)
ServerClose ==
    /\ pc = "Sending"
    /\ ~serverClosed
    /\ serverClosed' = TRUE
    /\ UNCHANGED <<appVars, pc, channel, parked, eventsRead, delivered,
                   subscribeWrites, replyReads, reply, connectFailed,
                   endCause, streamEnded, cmdVars>>

\* send().await completes once the sender is unparked
SendDone ==
    /\ pc = "Sending"
    /\ ~parked
    /\ pc' = "Streaming"
    /\ UNCHANGED <<appVars, channel, parked, eventsRead, delivered,
                   subscribeWrites, replyReads, reply, connectFailed>>
    /\ UNCHANGED <<endVars, cmdVars>>

StayParked(p) == p

\* the receiver, on taking an update, unparks the parked sender
UnparkOne(p) == FALSE

\* subscription: the runtime takes the oldest queued update (which unparks the
\* sender) and hands it to update as Message::WorkspaceUpdated
Deliver ==
    /\ channel # <<>>
    /\ update(Head(channel))
    /\ delivered' = Append(delivered, Head(channel))
    /\ channel' = Tail(channel)
    /\ parked' = UnparkOne(parked)
    /\ UNCHANGED <<pc, eventsRead, subscribeWrites, replyReads, reply,
                   connectFailed, endVars, cmdVars>>

\* the worker future has ended and dropped the sender: once the queue is
\* empty the receiver, and with it the subscription's stream, ends
StreamEnd ==
    /\ pc = "Terminated"
    /\ channel = <<>>
    /\ ~streamEnded
    /\ streamEnded' = TRUE
    /\ UNCHANGED <<appVars, pc, channel, parked, eventsRead, delivered,
                   subscribeWrites, replyReads, reply, connectFailed,
                   serverClosed, endCause, cmdVars>>

Init == InitWith({<<>>} \cup StreamLists)

Next ==
    \/ SessionStart
    \/ Connect
    \/ WriteSubscribe
    \/ ReadReply
    \/ ReadEvent
    \/ ReadEventErr
    \/ ServerClose
    \/ SendDone
    \/ Deliver
    \/ StreamEnd

Spec == Init /\ [][Next]_vars

\* The events the server sends in the liveness runs: the two kinds that
\* produce an update (a list, an activation with focus)
FairEvents ==
    {WorkspacesChanged(ListB), WorkspaceActivated(2, TRUE)}

ReadEventFair == ReadEventFrom(FairEvents)

\* what the worker future can do on its own
SessionStep ==
    \/ SessionStart
    \/ Connect
    \/ WriteSubscribe
    \/ ReadReply
    \/ ReadEventFair
    \/ ReadEventErr
    \/ SendDone

InitFair == InitWith({ListA})

NextFair ==
    \/ SessionStart
    \/ Connect
    \/ WriteSubscribe
    \/ ReadReply
    \/ ReadEventFair
    \/ ReadEventErr
    \/ ServerClose
    \/ SendDone
    \/ Deliver
    \/ StreamEnd

\* SpecFair: the executor keeps polling the worker future, so a step of it
\* that needs nothing from the server is taken; a read returns once the server
\* has closed; the runtime keeps taking updates from the subscription's
\* stream. Nothing obliges the server to send or to close.
SpecFair ==
    /\ InitFair
    /\ [][NextFair]_vars
    /\ WF_vars(SessionStart)
    /\ WF_vars(Connect)
    /\ WF_vars(WriteSubscribe)
    /\ WF_vars(SendDone)
    /\ WF_vars(serverClosed /\ ReadEventErr)
    /\ WF_vars(Deliver)
    /\ WF_vars(StreamEnd)

-----------------------------------------------------------------------------
(* The applet's commands: src/niri.rs, NiriSocketExt, and src/app.rs, init   *)
(* and update. SpecApp starts before init and handles any sequence of        *)
(* messages: the updates the subscription can deliver, the three focus       *)
(* commands and Ping.                                                        *)

\* Message::FocusWorkspace(u64), FocusWorkspaceUp, FocusWorkspaceDown, Ping
FocusWorkspaceMsg(id) == [type |-> "FocusWorkspace", workspaces |-> <<>>, id |-> id]
FocusWorkspaceUpMsg == [type |-> "FocusWorkspaceUp", workspaces |-> <<>>, id |-> 0]
FocusWorkspaceDownMsg == [type |-> "FocusWorkspaceDown", workspaces |-> <<>>, id |-> 0]
PingMsg == [type |-> "Ping", workspaces |-> <<>>, id |-> 0]

FocusCommandTypes == {"FocusWorkspace", "FocusWorkspaceUp", "FocusWorkspaceDown"}

\* How Socket::send comes back, an io::Result<Reply>: Ok(Ok(response)),
\* Ok(Err(message)) when the server answers with an error payload, or Err when
\* the write, the read or the decoding of the reply fails
ActionOutcomes == {"Handled", "ErrPayload", "IoError"}
WorkspacesOutcomes == {"Workspaces", "OkOther", "ErrPayload", "IoError"}

\* the updates the subscription can hand to update
StreamUpdates ==
    {WorkspaceChanged(l) : l \in StreamLists} \cup {FocusChanged(id) : id \in FocusIds}

\* .inspect_err(|e| error!(..)): the closure runs when send returns Err, and
\* only then
ErrorLogs(o) == IF o = "IoError" THEN 1 ELSE 0

ConnectionsAfterSendFresh(n) == n + 1

\* self.send(..) on the Socket stored in the applet: no connection is opened
ConnectionsAfterSend(n) == n

FocusedOptimistic(f, m) == IF m.type = "FocusWorkspace" THEN m.id ELSE f

\* update, the arms FocusWorkspace, FocusWorkspaceUp, FocusWorkspaceDown: the
\* value of self.focused afterwards
FocusedAfterCommand(f, m) == f

\* get_workspace: what it returns for the outcome o of send, l being the list
\* of a Workspaces response; any other response reaches unreachable!()
get_workspace(o, l) ==
    IF o = "Workspaces" THEN [panicked |-> FALSE, value |-> l]
    ELSE IF o = "OkOther" THEN [panicked |-> TRUE, value |-> <<>>]
    ELSE [panicked |-> FALSE, value |-> <<>>]

\* init: Socket::connect().expect(..), get_workspace, sort, focused: 0
AppInit ==
    /\ appPc = "Starting"
    /\ \E ok \in BOOLEAN :
         IF ~ok
         THEN /\ appPc' = "Panicked"
              /\ UNCHANGED <<appVars, cmdConnections, socketRequests,
                             cmdOutcome, cmdErrorLogs>>
         ELSE \E o \in WorkspacesOutcomes, l \in {<<>>} \cup StreamLists :
                LET r == get_workspace(o, l)
                IN  /\ cmdConnections' = 1
                    /\ socketRequests' = 1
                    /\ cmdOutcome' = o
                    /\ cmdErrorLogs' = ErrorLogs(o)
                    /\ appPc' = IF r.panicked THEN "Panicked" ELSE "Running"
                    /\ workspaces' = IF r.panicked THEN workspaces
                                     ELSE SortByIdx(r.value)
                    /\ focused' = 0
                    /\ lastMsg' = NoMsg
    /\ UNCHANGED <<sessionVars, delivered>>

\* focus_worspace, focus_worspace_up, focus_worspace_down: one request on
\* self.socket; the result is logged if it is an Err and then dropped by .ok()
SocketSendAction(m) ==
    /\ appPc = "Running"
    /\ socketRequests < MaxRequests
    /\ \E o \in ActionOutcomes :
         /\ cmdOutcome' = o
         /\ cmdErrorLogs' = ErrorLogs(o)
    /\ socketRequests' = socketRequests + 1
    /\ cmdConnections' = ConnectionsAfterSend(cmdConnections)
    /\ lastMsg' = m
    /\ workspaces' = workspaces
    /\ focused' = FocusedAfterCommand(focused, m)
    /\ UNCHANGED <<appPc, sessionVars, delivered>>

\* update, the arm Message::FocusWorkspace(idx)
OnFocusWorkspace == \E id \in FocusIds : SocketSendAction(FocusWorkspaceMsg(id))

\* update, the arm Message::FocusWorkspaceDown
OnFocusWorkspaceDown == SocketSendAction(FocusWorkspaceDownMsg)

\* update, the arm Message::FocusWorkspaceUp
OnFocusWorkspaceUp == SocketSendAction(FocusWorkspaceUpMsg)

\* update, the arm Message::Ping: a debug! line and nothing else
OnPing ==
    /\ appPc = "Running"
    /\ lastMsg' = PingMsg
    /\ UNCHANGED <<workspaces, focused, cmdVars, sessionVars, delivered>>

\* update, the arm Message::WorkspaceUpdated, for any update of the subscription
AppDispatch ==
    /\ appPc = "Running"
    /\ \E m \in StreamUpdates : update(m)
    /\ UNCHANGED <<sessionVars, delivered, cmdVars>>

\* the process has started and init has not run yet
InitApp ==
    /\ workspaces = <<>>
    /\ focused = 0
    /\ lastMsg = NoMsg
    /\ pc = "Disconnected"
    /\ channel = <<>>
    /\ parked = FALSE
    /\ eventsRead = <<>>
    /\ delivered = <<>>
    /\ subscribeWrites = 0
    /\ replyReads = 0
    /\ reply = "None"
    /\ connectFailed = FALSE
    /\ serverClosed = FALSE
    /\ endCause = "None"
    /\ streamEnded = FALSE
    /\ appPc = "Starting"
    /\ cmdConnections = 0
    /\ socketRequests = 0
    /\ cmdOutcome = "None"
    /\ cmdErrorLogs = 0

NextApp ==
    \/ AppInit
    \/ AppDispatch
    \/ OnFocusWorkspace
    \/ OnFocusWorkspaceUp
    \/ OnFocusWorkspaceDown
    \/ OnPing

SpecApp == InitApp /\ [][NextApp]_vars

-----------------------------------------------------------------------------
(* SpecUpdate: update applied to any sequence of WorkspaceUpdate messages,  *)
(* starting from any snapshot init can build.                               *)

InitUpdate == InitWith(ServerLists)

Dispatch ==
    \E m \in AllUpdates : update(m) /\ UNCHANGED <<sessionVars, delivered, cmdVars>>

NextUpdate == Dispatch

SpecUpdate == InitUpdate /\ [][NextUpdate]_vars

-----------------------------------------------------------------------------
(* Claims about the applet state, checked under SpecUpdate *)

SameMembers(a, b) ==
    /\ Len(a) = Len(b)
    /\ \A w \in WorkspaceSet :
         Cardinality({i \in 1..Len(a) : a[i] = w}) =
         Cardinality({i \in 1..Len(b) : b[i] = w})

\* C1: the snapshot is always sorted ascending by idx; right after a
\* WorkspaceChanged it holds exactly the workspaces of that update, and
\* applying that update once more changes nothing.
C1_SortedExactIdempotent ==
    /\ IsSortedByIdx(workspaces)
    /\ lastMsg.type = "WorkspaceChanged" =>
         /\ SameMembers(workspaces, lastMsg.workspaces)
         /\ UpdateWorkspaces(workspaces, lastMsg) = workspaces

\* a WorkspaceChanged whose list arrived out of order has been applied
C1_Witness ==
    /\ lastMsg.type = "WorkspaceChanged"
    /\ Len(workspaces) >= 2
    /\ ~IsSortedByIdx(lastMsg.workspaces)

C3_FocusedMatchesSnapshot ==
    /\ \A i \in 1..Len(workspaces) :
         workspaces[i].is_focused => focused = workspaces[i].id
    /\ NumFocused(workspaces) = 0 => focused = 0

\* C4: after FocusChanged(id) with id in the snapshot, the workspace with that
\* id is focused and no other is.
C4_ActivatedPresent ==
    (lastMsg.type = "FocusChanged" /\ HasId(workspaces, lastMsg.id)) =>
        /\ NumFocused(workspaces) = 1
        /\ \A i \in 1..Len(workspaces) :
             workspaces[i].is_focused <=> (workspaces[i].id = lastMsg.id)

C4_Witness ==
    /\ lastMsg.type = "FocusChanged"
    /\ HasId(workspaces, lastMsg.id)
    /\ Len(workspaces) >= 2
    /\ focused = lastMsg.id

\* C5: FocusChanged(id) with id not in the snapshot leaves no workspace
\* focused and keeps the snapshot's members and their order.
C5_ActivatedAbsent ==
    [][(lastMsg'.type = "FocusChanged" /\ ~HasId(workspaces, lastMsg'.id)) =>
          /\ NumFocused(workspaces') = 0
          /\ Len(workspaces') = Len(workspaces)
          /\ \A i \in 1..Len(workspaces) :
               /\ workspaces'[i].id = workspaces[i].id
               /\ workspaces'[i].idx = workspaces[i].idx]_vars

C5_Witness ==
    /\ lastMsg.type = "FocusChanged"
    /\ ~HasId(workspaces, lastMsg.id)
    /\ Len(workspaces) >= 2
    /\ NumFocused(workspaces) = 0

-----------------------------------------------------------------------------
(* Claims about the session and the channel, checked under Spec *)

IsPrefix(a, b) == Len(a) <= Len(b) /\ SubSeq(b, 1, Len(a)) = a

\* the updates a sequence of events stands for, in arrival order
RECURSIVE ExpectedUpdates(_)
ExpectedUpdates(es) ==
    IF es = <<>> THEN <<>>
    ELSE LET e == es[Len(es)]
             rest == ExpectedUpdates(SubSeq(es, 1, Len(es) - 1))
         IN  CASE e.type = "WorkspacesChanged" ->
                    Append(rest, WorkspaceChanged(e.workspaces))
               [] e.type = "WorkspaceActivated" /\ e.focused ->
                    Append(rest, FocusChanged(e.id))
               [] OTHER -> rest

\* C6: the updates delivered so far are a prefix of the updates the events
\* read so far stand for, taken in arrival order.
C6_DeliveredInArrivalOrder == IsPrefix(delivered, ExpectedUpdates(eventsRead))

\* two different updates have been delivered, with ignored events among
\* those read
C6_Witness ==
    /\ Len(delivered) >= 2
    /\ delivered[1] # delivered[2]
    /\ Len(eventsRead) > Len(ExpectedUpdates(eventsRead))

\* C7 as stated: the channel never holds more than 4 undelivered updates.
C7_AtMostChannelSize == Len(channel) <= ChannelSize

\* C7, amended: the channel never holds more than ChannelSize + 1 undelivered
\* updates; when it holds that many the session is blocked in send and reads
\* no event until an update is taken; every update read is delivered or queued.
C7_BoundedBlockingNoDrop ==
    /\ [](/\ Len(channel) <= ChannelSize + 1
          /\ Len(channel) = ChannelSize + 1 => (pc = "Sending" /\ parked)
          /\ delivered \o channel = ExpectedUpdates(eventsRead))
    /\ [][Len(channel) = ChannelSize + 1 => eventsRead' = eventsRead]_vars

\* the channel is at its bound, the session blocked, and the server has more
\* to send
C7_Witness ==
    /\ Len(channel) = ChannelSize + 1
    /\ pc = "Sending"
    /\ Len(eventsRead) < MaxEvents

\* C8: the subscribe request is written once and before any read, one reply
\* line is read, and events are read only after the reply Ok(Handled).
C8_SubscribeThenAckThenEvents ==
    /\ subscribeWrites <= 1
    /\ replyReads <= 1
    /\ replyReads = 1 => subscribeWrites = 1
    /\ pc = "AwaitingSubscribeAck" => (subscribeWrites = 1 /\ replyReads = 0)
    /\ (pc \in {"Streaming", "Sending"} \/ eventsRead # <<>>) =>
         (subscribeWrites = 1 /\ replyReads = 1 /\ reply = "Handled")

C8_Witness ==
    /\ pc = "Streaming"
    /\ Len(eventsRead) >= 1
    /\ reply = "Handled"

\* C9: a reply that is not the accepted one, a failed read or an undecodable
\* reply line ends the session normally (Terminated) with nothing delivered.
C9_BadAckTerminates ==
    (replyReads = 1 /\ reply # "Handled") =>
        (pc = "Terminated" /\ delivered = <<>> /\ channel = <<>>)

\* C10: a failed connect ends the session normally (Terminated): no request
\* written, nothing delivered.
C10_ConnectFailTerminates ==
    connectFailed =>
        (pc = "Terminated" /\ subscribeWrites = 0 /\ delivered = <<>>)

\* C11: a failed read while Streaming ends the session (Terminated); from then
\* on the session stays Terminated, reads nothing and queues nothing, the
\* queued updates leave the channel from its head in order, and the stream
\* ends only when the channel is empty and every update has been delivered.
C11_TerminatedAbsorbing ==
    /\ [](endCause = "ReadFailed" => pc = "Terminated")
    /\ [](streamEnded =>
            /\ pc = "Terminated"
            /\ channel = <<>>
            /\ delivered = ExpectedUpdates(eventsRead))
    /\ []((pc = "Terminated" /\ channel = <<>> /\ ~streamEnded) => ENABLED StreamEnd)
    /\ [][pc = "Terminated" =>
            /\ pc' = "Terminated"
            /\ eventsRead' = eventsRead
            /\ delivered' \o channel' = delivered \o channel
            /\ IsPrefix(delivered, delivered')
            /\ streamEnded => (delivered' = delivered /\ streamEnded')]_vars

\* the read failed with two updates still queued, after others were delivered
C11_Witness ==
    /\ pc = "Terminated"
    /\ endCause = "ReadFailed"
    /\ Len(channel) >= 2
    /\ delivered # <<>>

IgnoredEvent(e) ==
    \/ e.type \notin {"WorkspacesChanged", "WorkspaceActivated"}
    \/ e.type = "WorkspaceActivated" /\ ~e.focused

\* C14: reading WorkspaceActivated with focused = false, or an event of another
\* kind, queues nothing, changes neither the snapshot nor focused nor what was
\* delivered, and leaves the session Streaming.
C14_IgnoredEventsNoEffect ==
    [][(Len(eventsRead') = Len(eventsRead) + 1
          /\ IgnoredEvent(eventsRead'[Len(eventsRead')])) =>
          /\ channel' = channel
          /\ delivered' = delivered
          /\ workspaces' = workspaces
          /\ focused' = focused
          /\ pc' = "Streaming"]_vars

\* an ignored event was the last one read, with updates queued and delivered
C14_Witness ==
    /\ eventsRead # <<>>
    /\ IgnoredEvent(eventsRead[Len(eventsRead)])
    /\ eventsRead[Len(eventsRead)].type = "WorkspaceActivated"
    /\ pc = "Streaming"
    /\ channel # <<>>
    /\ delivered # <<>>

\* C15: a line of a variant the client does not know is decoded as an ignored
\* event, and the session stays Streaming.
C15_UnknownVariantIgnored == endCause = "UnknownVariant" => pc = "Streaming"

Produces(e) ==
    \/ e.type = "WorkspacesChanged"
    \/ e.type = "WorkspaceActivated" /\ e.focused

NumProducers(es, i) == Cardinality({j \in 1..i : Produces(es[j])})

\* the event behind the k-th update
KthProducer(es, k) ==
    es[CHOOSE i \in 1..Len(es) : Produces(es[i]) /\ NumProducers(es, i) = k]

\* the events up to and including the one behind the k-th update
PrefixOfK(es, k) ==
    IF k = 0 THEN <<>>
    ELSE SubSeq(es, 1, CHOOSE i \in 1..Len(es) :
                          Produces(es[i]) /\ NumProducers(es, i) = k)

\* the reconciler rules of the specification
ReconcileSorted(list) ==
    CHOOSE r \in [1..Len(list) -> {list[i] : i \in 1..Len(list)}] :
        IsSortedByIdx(r) /\ SameMembers(r, list)

ReconcileEvent(snap, e) ==
    IF e.type = "WorkspacesChanged" THEN ReconcileSorted(e.workspaces)
    ELSE IF e.type = "WorkspaceActivated" /\ e.focused
         THEN [i \in 1..Len(snap) |-> [snap[i] EXCEPT !.is_focused = (snap[i].id = e.id)]]
         ELSE snap

RECURSIVE Reconcile(_, _)
Reconcile(snap, es) ==
    IF es = <<>> THEN snap
    ELSE ReconcileEvent(Reconcile(snap, SubSeq(es, 1, Len(es) - 1)), es[Len(es)])

HasWorkspacesChanged(es) == \E i \in 1..Len(es) : es[i].type = "WorkspacesChanged"

\* C17: each delivered update changes the snapshot as the reconciler rule of
\* the event behind it says; once the applied prefix holds a WorkspacesChanged
\* the snapshot is the rules applied to that prefix; and after
\* WorkspacesChanged([ws1 focused, ws2]), WorkspaceActivated{2, true} workspace
\* 2 is focused and workspace 1 is not.
C17_SnapshotRefinesReconciler ==
    /\ [](LET prefix == PrefixOfK(eventsRead, Len(delivered))
          IN  HasWorkspacesChanged(prefix) =>
                workspaces = Reconcile(<<>>, prefix))
    /\ []((/\ Len(delivered) = 2
           /\ SubSeq(eventsRead, 1, 2) =
                <<WorkspacesChanged(ListA), WorkspaceActivated(2, TRUE)>>) =>
            workspaces = <<Ws(1, 1, FALSE), Ws(2, 2, TRUE)>>)
    /\ [][Len(delivered') = Len(delivered) + 1 =>
            workspaces' =
                ReconcileEvent(workspaces, KthProducer(eventsRead, Len(delivered')))]_vars

\* scenario A has been read and applied, with an ignored event in between
C17_Witness ==
    /\ Len(eventsRead) >= 3
    /\ eventsRead[1] = WorkspacesChanged(ListA)
    /\ IgnoredEvent(eventsRead[2])
    /\ eventsRead[3] = WorkspaceActivated(2, TRUE)
    /\ Len(delivered) = 2
    /\ workspaces = <<Ws(1, 1, FALSE), Ws(2, 2, TRUE)>>

-----------------------------------------------------------------------------
(* Claims about the commands, checked under SpecApp *)

\* C12: a focus command that fails (error payload from the server, or a failed
\* write, read or decode) returns normally and writes exactly one error log
\* entry.
C12_FailedFocusLogsOnce ==
    (lastMsg.type \in FocusCommandTypes /\ cmdOutcome \in {"ErrPayload", "IoError"}) =>
        (cmdErrorLogs = 1 /\ appPc = "Running")

\* C13: get_workspaces returns the empty sequence, without a panic, whenever
\* the reply is not a workspace list: on a failure, on an error reply, and on
\* a successful reply with another payload.
C13_GetWorkspacesDegradesToEmpty ==
    (socketRequests = 1 /\ lastMsg = NoMsg /\ cmdOutcome # "Workspaces") =>
        (appPc = "Running" /\ workspaces = <<>>)

C18_OnlyUpdatesChangeSnapshot ==
    [][/\ lastMsg'.type \in FocusCommandTypes \cup {"Ping"} =>
            (workspaces' = workspaces /\ focused' = focused)
       /\ (workspaces' # workspaces \/ focused' # focused) =>
            (appPc = "Starting" \/ lastMsg'.type \in {"WorkspaceChanged", "FocusChanged"})]_vars

\* a failed FocusWorkspace for a workspace of the snapshot that is not the
\* focused one
C18_Witness ==
    /\ lastMsg.type = "FocusWorkspace"
    /\ cmdOutcome = "IoError"
    /\ HasId(workspaces, lastMsg.id)
    /\ focused # lastMsg.id
    /\ NumFocused(workspaces) = 1

-----------------------------------------------------------------------------
(* Liveness, checked under SpecFair *)

\* C19: every update-producing event the session has read is eventually
\* applied; once the server has closed the connection the session eventually
\* is Terminated; and a session blocked in send can take no step of its own,
\* so without a consumer taking updates it stays blocked.
C19_EventuallyAppliedAndTerminated ==
    /\ \A n \in 1..MaxEvents :
         (Len(ExpectedUpdates(eventsRead)) >= n) ~> (Len(delivered) >= n)
    /\ serverClosed ~> (pc = "Terminated")
    /\ []((pc = "Sending" /\ parked) => ~ENABLED SessionStep)

\* the server closed while the session was blocked in send; the consumer
\* drained the channel and the session ended
C19_Witness ==
    /\ serverClosed
    /\ pc = "Terminated"
    /\ channel = <<>>
    /\ Len(delivered) >= ChannelSize + 1

====
